---- MODULE Spec2Model ----
(***************************************************************************)
(* Model of datareadtel: the UIO register-block provider                   *)
(* (kernel/uio_sim_sensor.c: sim_init, sim_exit) and the polling reader    *)
(* (examples/reader.c: main, r32), sharing one 4096-byte region.           *)
(*                                                                         *)
(* Each statement of sim_init, sim_exit and main that touches shared state *)
(* is one action, so the provider and the reader interleave at statement   *)
(* granularity.  The external mapping mechanism (open/mmap on the device   *)
(* node, the allocator, uio_register_device) is the environment: its       *)
(* return values are chosen nondeterministically and the actions branch on *)
(* them exactly as the code does.                                          *)
(*                                                                         *)
(* The repository has no telemetry writer.  write_telemetry, the writer    *)
(* the design documents as an extension point, is part of SpecW only; Spec *)
(* is the program as it is.                                                *)
(***************************************************************************)
EXTENDS Integers, FiniteSets, Sequences, TLC

\* ---------------------------------------------------------------- constants
\* #define MMIO_SIZE 4096
MMIO_SIZE == 4096
\* *(u32 *)(mmio + 0x000) = 0x53554D31
OFF_MAGIC == 0
MAGIC == 1398099249
\* *(u32 *)(mmio + 0x004) = 0x00010000
OFF_VERSION == 4
VERSION == 65536
\* *(u32 *)(mmio + 0x008) = 0x1
OFF_STATUS == 8
STATUS_OK == 1
\* #define ACCEL_X 0x010
ACCEL_X == 16
\* #define ACCEL_Y 0x014
ACCEL_Y == 20
\* #define ACCEL_Z 0x018
ACCEL_Z == 24
\* #define AIRSPEED 0x050
AIRSPEED == 80
\* for (int i=0; i<20; ++i)
Count == 20

\* ------------------------------------------------------------------- bounds
\* Largest 32-bit pattern a load of memory the provider does not own may
\* return (a freed region, or the region of another identity).
MaxWord == 1
\* How many times the host may call sim_exit after a successful sim_init.
MaxExitCalls == 2

\* How many update cycles the telemetry writer performs.
MaxCycles == 2

Words == 0..MaxWord

\* Header words the region behind the "other" identity may hold: a right
\* or a wrong identity word, a ready or a not-ready status.
OtherHeaders == [magic : {0, MAGIC}, status : {0, STATUS_OK}]

\* Sizes of the region behind an identity other than the provider's device.
OtherSizes == {2048, 8192}

\* argv[1] absent -> "/dev/uio0"; present -> some other identity.
Paths == {"/dev/uio0", "other"}

\* The words of the region the model keeps, by byte offset: the words
\* sim_init stores to, the words the reader loads from, and words next to
\* them that no statement of the program names.
HeaderFields == {OFF_MAGIC, OFF_VERSION, OFF_STATUS}
TelemetryFields == {ACCEL_X, ACCEL_Y, ACCEL_Z, AIRSPEED}
OtherWords == {12, 28, 76, 84}
Fields == HeaderFields \cup TelemetryFields \cup OtherWords

\* kzalloc returns zeroed memory.
ZeroPage == [f \in Fields |-> 0]

VARIABLES
    \* ---- provider (uio_sim_sensor.c)
    ppc,          \* position of the provider
    mmio,         \* static void *mmio: "NULL" or "region"
    allocated,    \* whether the memory mmio points to is live on the heap
    mem,          \* contents of the region
    hstores,      \* number of stores made to each header word of the region
    wcycle,       \* telemetry writer: number of the update cycle in progress
    wpos,         \* telemetry writer: fields already stored in this cycle
    uio_size,     \* sim_uio.mem[0].size
    registered,   \* the device is registered with the UIO core
    initret,      \* return value of sim_init ("none" until it returns)
    exitCalls,    \* number of calls of sim_exit
    doubleFree,   \* kfree was called on memory already freed
    doubleUnreg,  \* uio_unregister_device was called on an unregistered device
    \* ---- reader (reader.c)
    rpc,          \* position of the reader
    path,         \* the identity main opens
    otherSize,    \* size of the region behind the "other" identity
    otherHdr,     \* header words of the region behind the "other" identity
    loaded,       \* offsets the reader has loaded from through its mapping
    fd,           \* "none", "open", "failed", "closed"
    rsize,        \* size of the region the descriptor resolved to (0: none)
    regs,         \* "none", "MAP_FAILED", "unmapped", or the mapped identity
    i,            \* loop counter
    ax, ay, az, v,\* the four locals of one sample
    nloads,       \* number of r32 loads performed
    nprinted,     \* number of samples rendered by printf
    npauses,      \* number of usleep pauses
    diag,         \* diagnostic printed by perror: "none", "open", "mmap"
    status        \* exit status: -1 running, 0, 1, 135 (killed by SIGBUS)

pvars == <<ppc, mmio, allocated, mem, hstores, uio_size, registered, initret,
           exitCalls, doubleFree, doubleUnreg>>
wvars == <<wcycle, wpos>>
rvars == <<rpc, path, otherSize, otherHdr, loaded, fd, rsize, regs, i, ax, ay, az, v,
           nloads, nprinted, npauses, diag, status>>
vars == <<ppc, mmio, allocated, mem, hstores, uio_size, registered, initret,
          exitCalls, doubleFree, doubleUnreg, wcycle, wpos,
          rpc, path, otherSize, otherHdr, loaded, fd, rsize, regs, i, ax, ay, az, v,
          nloads, nprinted, npauses, diag, status>>

Init ==
    /\ ppc = "idle"
    /\ mmio = "NULL"
    /\ allocated = FALSE
    /\ mem = ZeroPage
    /\ hstores = [f \in HeaderFields |-> 0]
    /\ uio_size = 0
    /\ registered = FALSE
    /\ initret = "none"
    /\ exitCalls = 0
    /\ doubleFree = FALSE
    /\ doubleUnreg = FALSE
    /\ rpc = "open"
    /\ path \in Paths
    /\ otherSize \in OtherSizes
    /\ otherHdr \in OtherHeaders
    /\ path = "/dev/uio0" =>
           /\ otherSize = 8192
           /\ otherHdr = [magic |-> MAGIC, status |-> STATUS_OK]
    /\ loaded = {}
    /\ wcycle = 0
    /\ wpos = 0
    /\ fd = "none"
    /\ rsize = 0
    /\ regs = "none"
    /\ i = 0
    /\ ax = 0 /\ ay = 0 /\ az = 0 /\ v = 0
    /\ nloads = 0
    /\ nprinted = 0
    /\ npauses = 0
    /\ diag = "none"
    /\ status = -1

\* ================================================================ provider

\* Mutant of sim_init_kzalloc: the result of kzalloc is not checked.
sim_init_kzalloc_unchecked ==
    /\ ppc = "idle"
    /\ \/ /\ mmio' = "region"
          /\ allocated' = TRUE
          /\ mem' = ZeroPage
          /\ hstores' = [f \in HeaderFields |-> 0]
       \/ /\ mmio' = "NULL"
          /\ UNCHANGED <<allocated, mem, hstores>>
    /\ ppc' = "st_magic"
    /\ UNCHANGED <<initret, uio_size, registered, exitCalls, doubleFree,
                   doubleUnreg>>
    /\ UNCHANGED <<rvars, wvars>>

\* mmio = kzalloc(MMIO_SIZE, GFP_KERNEL); if (!mmio) return -ENOMEM;
sim_init_kzalloc ==
    /\ ppc = "idle"
    /\ \/ /\ mmio' = "region"
          /\ allocated' = TRUE
          /\ mem' = ZeroPage
          /\ hstores' = [f \in HeaderFields |-> 0]
          /\ ppc' = "st_magic"
          /\ UNCHANGED initret
       \/ /\ mmio' = "NULL"
          /\ initret' = "ENOMEM"
          /\ ppc' = "init_failed"
          /\ UNCHANGED <<allocated, mem, hstores>>
    /\ UNCHANGED <<uio_size, registered, exitCalls, doubleFree, doubleUnreg>>
    /\ UNCHANGED <<rvars, wvars>>

\* A store of one header word through mmio.
StoreHeader(at, field, value, next) ==
    /\ ppc = at
    /\ mem' = [mem EXCEPT ![field] = value]
    /\ hstores' = [hstores EXCEPT ![field] = @ + 1]
    /\ ppc' = next
    /\ UNCHANGED <<mmio, allocated, uio_size, registered, initret,
                   exitCalls, doubleFree, doubleUnreg>>
    /\ UNCHANGED <<rvars, wvars>>

\* Mutant of sim_init_magic: the store of the identity word is left out.
sim_init_magic_skipped ==
    /\ ppc = "st_magic"
    /\ ppc' = "st_version"
    /\ UNCHANGED <<mmio, allocated, mem, hstores, uio_size, registered,
                   initret, exitCalls, doubleFree, doubleUnreg>>
    /\ UNCHANGED <<rvars, wvars>>

\* *(u32 *)(mmio + 0x000) = 0x53554D31;
sim_init_magic == StoreHeader("st_magic", OFF_MAGIC, MAGIC, "st_version")

\* *(u32 *)(mmio + 0x004) = 0x00010000;
sim_init_version ==
    StoreHeader("st_version", OFF_VERSION, VERSION, "st_status")

\* Mutant of sim_init_status: the store of the status word is left out.
sim_init_status_skipped ==
    /\ ppc = "st_status"
    /\ ppc' = "fill_uio"
    /\ UNCHANGED <<mmio, allocated, mem, hstores, uio_size, registered,
                   initret, exitCalls, doubleFree, doubleUnreg>>
    /\ UNCHANGED <<rvars, wvars>>

\* *(u32 *)(mmio + 0x008) = 0x1;
sim_init_status ==
    StoreHeader("st_status", OFF_STATUS, STATUS_OK, "fill_uio")

\* sim_uio.name = ...; sim_uio.mem[0].addr = mmio; sim_uio.mem[0].size = MMIO_SIZE;
sim_init_fill_uio ==
    /\ ppc = "fill_uio"
    /\ uio_size' = MMIO_SIZE
    /\ ppc' = "register"
    /\ UNCHANGED <<mmio, allocated, mem, hstores, registered, initret,
                   exitCalls, doubleFree, doubleUnreg>>
    /\ UNCHANGED <<rvars, wvars>>

\* if (uio_register_device(NULL, &sim_uio)) {...}  ...  return 0;
sim_init_register ==
    /\ ppc = "register"
    /\ \/ /\ registered' = TRUE
          /\ initret' = "0"
          /\ ppc' = "live"
       \/ /\ registered' = FALSE
          /\ ppc' = "rollback"
          /\ UNCHANGED initret
    /\ UNCHANGED <<mmio, allocated, mem, hstores, uio_size,
                   exitCalls, doubleFree, doubleUnreg>>
    /\ UNCHANGED <<rvars, wvars>>

\* Mutant of sim_init_rollback: the failure branch returns without kfree.
sim_init_rollback_leak ==
    /\ ppc = "rollback"
    /\ initret' = "ENODEV"
    /\ ppc' = "init_failed"
    /\ UNCHANGED <<mmio, allocated, mem, hstores, uio_size, registered,
                   exitCalls, doubleFree, doubleUnreg>>
    /\ UNCHANGED <<rvars, wvars>>

\* The failure branch: kfree(mmio); pr_err(...); return -ENODEV;
sim_init_rollback ==
    /\ ppc = "rollback"
    /\ allocated' = FALSE
    /\ initret' = "ENODEV"
    /\ ppc' = "init_failed"
    /\ UNCHANGED <<mmio, mem, hstores, uio_size, registered,
                   exitCalls, doubleFree, doubleUnreg>>
    /\ UNCHANGED <<rvars, wvars>>

\* Mutant of sim_exit_guard: teardown waits until no reader maps the region.
sim_exit_guard_waits == regs # "/dev/uio0"

\* The condition under which the body of sim_exit starts: the code has none.
\* The host calls it after a successful sim_init, and may call it again.
sim_exit_guard == TRUE

\* Mutant of sim_exit_unregister: sim_exit frees the region first and
\* leaves the unregistration to its second statement.
sim_exit_kfree_first ==
    /\ ppc = "live"
    /\ exitCalls' = exitCalls + 1
    /\ allocated' = FALSE
    /\ ppc' = "exit_kfree"
    /\ UNCHANGED <<mmio, mem, hstores, uio_size, registered, initret,
                   doubleFree, doubleUnreg>>
    /\ UNCHANGED <<rvars, wvars>>

\* uio_unregister_device(&sim_uio);
\* Unregistering a device that is not registered is outside the contract of
\* the UIO core: the call either returns or faults.
sim_exit_unregister ==
    /\ \/ ppc = "live"
       \/ ppc = "unloaded" /\ exitCalls < MaxExitCalls
    /\ sim_exit_guard
    /\ exitCalls' = exitCalls + 1
    /\ registered' = FALSE
    /\ IF registered
         THEN /\ ppc' = "exit_kfree"
              /\ UNCHANGED doubleUnreg
         ELSE /\ doubleUnreg' = TRUE
              /\ ppc' \in {"exit_kfree", "oops"}
    /\ UNCHANGED <<mmio, allocated, mem, hstores, uio_size, initret, doubleFree>>
    /\ UNCHANGED <<rvars, wvars>>

\* kfree(mmio); pr_info(...);   mmio keeps its value after the call.
\* kfree of memory that is already free is undefined: it either returns
\* (having corrupted the allocator) or faults.
sim_exit_kfree ==
    /\ ppc = "exit_kfree"
    /\ allocated' = FALSE
    /\ IF mmio = "NULL" \/ allocated
         THEN /\ ppc' = "unloaded"
              /\ UNCHANGED doubleFree
         ELSE /\ doubleFree' = TRUE
              /\ ppc' \in {"unloaded", "oops"}
    /\ UNCHANGED <<mmio, mem, hstores, uio_size, registered, initret,
                   exitCalls, doubleUnreg>>
    /\ UNCHANGED <<rvars, wvars>>

ProviderNext ==
    \/ sim_init_kzalloc
    \/ sim_init_magic
    \/ sim_init_version
    \/ sim_init_status
    \/ sim_init_fill_uio
    \/ sim_init_register
    \/ sim_init_rollback
    \/ sim_exit_unregister
    \/ sim_exit_kfree

\* ================================================================== reader

\* The size of the region an identity resolves to in the external mechanism.
ResolvedSize(p) == IF p = "/dev/uio0" THEN uio_size ELSE otherSize

\* Whether the external mechanism can resolve the identity now: the
\* provider's device node exists only while the device is registered.
Resolvable(p) == p = "/dev/uio0" => registered

\* Mutant of main_open: the failure branch prints but does not return.
main_open_noreturn ==
    /\ rpc = "open"
    /\ \/ /\ Resolvable(path)
          /\ fd' = "open"
          /\ rsize' = ResolvedSize(path)
          /\ UNCHANGED diag
       \/ /\ fd' = "failed"
          /\ diag' = "open"
          /\ UNCHANGED rsize
    /\ rpc' = "mmap"
    /\ UNCHANGED <<path, otherSize, otherHdr, loaded, regs, i, ax, ay, az, v,
                   nloads, nprinted, npauses, status>>
    /\ UNCHANGED <<pvars, wvars>>

\* int fd = open(path, O_RDONLY); if (fd < 0) { perror("open"); return 1; }
main_open ==
    /\ rpc = "open"
    /\ \/ /\ Resolvable(path)
          /\ fd' = "open"
          /\ rsize' = ResolvedSize(path)
          /\ rpc' = "mmap"
          /\ UNCHANGED <<diag, status>>
       \/ /\ fd' = "failed"
          /\ diag' = "open"
          /\ status' = 1
          /\ rpc' = "exited"
          /\ UNCHANGED rsize
    /\ UNCHANGED <<path, otherSize, otherHdr, loaded, regs, i, ax, ay, az, v,
                   nloads, nprinted, npauses>>
    /\ UNCHANGED <<pvars, wvars>>

\* Mutant of main_mmap: the failure branch returns 0.
main_mmap_ret0 ==
    /\ rpc = "mmap"
    /\ \/ /\ Resolvable(path)
          /\ regs' = path
          /\ rpc' = "loop"
          /\ UNCHANGED <<diag, status>>
       \/ /\ regs' = "MAP_FAILED"
          /\ diag' = "mmap"
          /\ status' = 0
          /\ rpc' = "exited"
    /\ UNCHANGED <<path, otherSize, otherHdr, loaded, fd, rsize, i, ax, ay, az, v,
                   nloads, nprinted, npauses>>
    /\ UNCHANGED <<pvars, wvars>>

\* void *regs = mmap(NULL, PAGE, PROT_READ, MAP_SHARED, fd, 0);
\* if (regs == MAP_FAILED) { perror("mmap"); return 1; }
\* The code compares nothing with the size of the region: whether the
\* mapping is granted is the mechanism's answer alone.
main_mmap ==
    /\ rpc = "mmap"
    /\ \/ /\ Resolvable(path)
          /\ regs' = path
          /\ rpc' = "loop"
          /\ UNCHANGED <<diag, status>>
       \/ /\ regs' = "MAP_FAILED"
          /\ diag' = "mmap"
          /\ status' = 1
          /\ rpc' = "exited"
    /\ UNCHANGED <<path, otherSize, otherHdr, loaded, fd, rsize, i, ax, ay, az, v,
                   nloads, nprinted, npauses>>
    /\ UNCHANGED <<pvars, wvars>>

\* Mutant of main_loop: before each sample the reader loads the status word
\* of the header and gives up with a diagnostic when it reads not-ready.
main_loop_gated ==
    /\ rpc = "loop"
    /\ loaded' = loaded \cup {OFF_STATUS}
    /\ LET st == IF regs = "/dev/uio0" THEN mem[OFF_STATUS]
                 ELSE otherHdr.status
       IN  IF st = 0
             THEN /\ rpc' = "exited"
                  /\ diag' = "protocol"
                  /\ status' = 1
             ELSE /\ rpc' = IF i < Count THEN "ld_ax" ELSE "munmap"
                  /\ UNCHANGED <<diag, status>>
    /\ UNCHANGED <<path, otherSize, otherHdr, fd, rsize, regs, i,
                   ax, ay, az, v, nloads, nprinted, npauses>>
    /\ UNCHANGED <<pvars, wvars>>

\* for (...; i<20; ...)
main_loop ==
    /\ rpc = "loop"
    /\ rpc' = IF i < Count THEN "ld_ax" ELSE "munmap"
    /\ UNCHANGED <<path, otherSize, otherHdr, loaded, fd, rsize, regs, i, ax, ay, az, v,
                   nloads, nprinted, npauses, diag, status>>
    /\ UNCHANGED <<pvars, wvars>>

\* Whether the memory behind the reader's mapping is still the provider's.
Backed == regs = "/dev/uio0" => allocated

\* r32: *(volatile float *)((uint8_t*)base + off), the values one load may
\* return.  Through a mapping of the provider's live region it is the word
\* stored there.  A load of freed memory is undefined and a load of another
\* identity's region reads contents this program does not control: any word.
r32(field) ==
    IF regs = "/dev/uio0" /\ allocated THEN {mem[field]} ELSE Words

\* What every load statement of the loop does besides assigning its local:
\* it either returns a word (w) and goes on, or, when the backing memory is
\* gone, may instead fault and kill the process with SIGBUS.
Load(at, field, next, w) ==
    /\ rpc = at
    /\ \/ /\ w \in r32(field)
          /\ nloads' = nloads + 1
          /\ loaded' = loaded \cup {field}
          /\ rpc' = next
          /\ UNCHANGED status
       \/ /\ ~Backed
          /\ w = 0
          /\ rpc' = "killed"
          /\ status' = 135
          /\ UNCHANGED <<nloads, loaded>>
    /\ UNCHANGED <<path, otherSize, otherHdr, fd, rsize, regs, i,
                   nprinted, npauses, diag>>
    /\ UNCHANGED <<pvars, wvars>>

\* float ax = r32(regs, ACCEL_X);
main_load_ax ==
    \E w \in r32(ACCEL_X) \cup {0} :
        /\ Load("ld_ax", ACCEL_X, "ld_ay", w)
        /\ ax' = IF rpc' = "killed" THEN ax ELSE w
        /\ UNCHANGED <<ay, az, v>>

\* Mutant of main_load_ay: the load waits until no update cycle is under way.
main_load_ay_locked ==
    /\ wpos = 0
    /\ \E w \in r32(ACCEL_Y) \cup {0} :
        /\ Load("ld_ay", ACCEL_Y, "ld_az", w)
        /\ ay' = IF rpc' = "killed" THEN ay ELSE w
        /\ UNCHANGED <<ax, az, v>>

\* float ay = r32(regs, ACCEL_Y);
main_load_ay ==
    \E w \in r32(ACCEL_Y) \cup {0} :
        /\ Load("ld_ay", ACCEL_Y, "ld_az", w)
        /\ ay' = IF rpc' = "killed" THEN ay ELSE w
        /\ UNCHANGED <<ax, az, v>>

\* Mutant of main_load_az: the load uses the offset of the neighbouring field.
main_load_az_wrong_offset ==
    \E w \in r32(ACCEL_Y) \cup {0} :
        /\ Load("ld_az", ACCEL_Y, "ld_v", w)
        /\ az' = IF rpc' = "killed" THEN az ELSE w
        /\ UNCHANGED <<ax, ay, v>>

\* float az = r32(regs, ACCEL_Z);
main_load_az ==
    \E w \in r32(ACCEL_Z) \cup {0} :
        /\ Load("ld_az", ACCEL_Z, "ld_v", w)
        /\ az' = IF rpc' = "killed" THEN az ELSE w
        /\ UNCHANGED <<ax, ay, v>>

\* float v = r32(regs, AIRSPEED);
main_load_v ==
    \E w \in r32(AIRSPEED) \cup {0} :
        /\ Load("ld_v", AIRSPEED, "printf", w)
        /\ v' = IF rpc' = "killed" THEN v ELSE w
        /\ UNCHANGED <<ax, ay, az>>

\* Mutant of main_printf: after rendering, the reader marks the sample as
\* taken by a store into the region.
main_printf_ack ==
    /\ rpc = "printf"
    /\ nprinted' = nprinted + 1
    /\ mem' = [mem EXCEPT ![ACCEL_X] = 1]
    /\ rpc' = "usleep"
    /\ UNCHANGED <<path, otherSize, otherHdr, loaded, fd, rsize, regs, i,
                   ax, ay, az, v, nloads, npauses, diag, status>>
    /\ UNCHANGED <<ppc, mmio, allocated, hstores, uio_size, registered,
                   initret, exitCalls, doubleFree, doubleUnreg, wvars>>

\* printf("ACCEL: %+.3f %+.3f %+.3f  V=%.2f\n", ax, ay, az, v);
main_printf ==
    /\ rpc = "printf"
    /\ nprinted' = nprinted + 1
    /\ rpc' = "usleep"
    /\ UNCHANGED <<path, otherSize, otherHdr, loaded, fd, rsize, regs, i, ax, ay, az, v,
                   nloads, npauses, diag, status>>
    /\ UNCHANGED <<pvars, wvars>>

\* usleep(100000); ++i
main_usleep ==
    /\ rpc = "usleep"
    /\ npauses' = npauses + 1
    /\ i' = i + 1
    /\ rpc' = "loop"
    /\ UNCHANGED <<path, otherSize, otherHdr, loaded, fd, rsize, regs, ax, ay, az, v,
                   nloads, nprinted, diag, status>>
    /\ UNCHANGED <<pvars, wvars>>

\* munmap(regs, PAGE);
main_munmap ==
    /\ rpc = "munmap"
    /\ regs' = "unmapped"
    /\ rpc' = "close"
    /\ UNCHANGED <<path, otherSize, otherHdr, loaded, fd, rsize, i, ax, ay, az, v,
                   nloads, nprinted, npauses, diag, status>>
    /\ UNCHANGED <<pvars, wvars>>

\* close(fd); return 0;
main_close ==
    /\ rpc = "close"
    /\ fd' = "closed"
    /\ status' = 0
    /\ rpc' = "exited"
    /\ UNCHANGED <<path, otherSize, otherHdr, loaded, rsize, regs, i, ax, ay, az, v,
                   nloads, nprinted, npauses, diag>>
    /\ UNCHANGED <<pvars, wvars>>

ReaderNext ==
    \/ main_open
    \/ main_mmap
    \/ main_loop
    \/ main_load_ax
    \/ main_load_ay
    \/ main_load_az
    \/ main_load_v
    \/ main_printf
    \/ main_usleep
    \/ main_munmap
    \/ main_close

\* ========================================================= telemetry writer

\* The documented layout of the telemetry zone: field -> byte offset.
Layout ==
    [accel_x |-> 16, accel_y |-> 20, accel_z |-> 24, airspeed |-> 80]

\* The order in which one update cycle stores the four fields.
CycleOrder == <<"accel_x", "accel_y", "accel_z", "airspeed">>

\* write_telemetry(field, value): one plain 32-bit store into the live
\* region.  Update cycle c stores the pattern c into each of the four
\* fields, one store at a time, with no lock and no sequence counter.
write_telemetry ==
    /\ ppc = "live"
    /\ LET c == IF wpos = 0 THEN wcycle + 1 ELSE wcycle
       IN  /\ c <= MaxCycles
           /\ mem' = [mem EXCEPT ![Layout[CycleOrder[wpos + 1]]] = c]
           /\ wcycle' = c
           /\ wpos' = (wpos + 1) % 4
    /\ UNCHANGED <<ppc, mmio, allocated, hstores, uio_size, registered,
                   initret, exitCalls, doubleFree, doubleUnreg>>
    /\ UNCHANGED rvars

\* =========================================================== specification

Next == ProviderNext \/ ReaderNext

Spec == Init /\ [][Next]_vars

\* The provider and the default reader with the telemetry writer running.
InitW == Init /\ path = "/dev/uio0"

NextW == Next \/ write_telemetry

SpecW == InitW /\ [][NextW]_vars

TypeOK ==
    /\ ppc \in {"idle", "st_magic", "st_version", "st_status", "fill_uio",
                "register", "rollback", "init_failed", "live",
                "exit_kfree", "unloaded", "oops"}
    /\ mmio \in {"NULL", "region"}
    /\ allocated \in BOOLEAN
    /\ mem \in [Fields -> Nat]
    /\ hstores \in [HeaderFields -> 0..1]
    /\ wcycle \in 0..MaxCycles
    /\ wpos \in 0..3
    /\ uio_size \in {0, MMIO_SIZE}
    /\ registered \in BOOLEAN
    /\ initret \in {"none", "0", "ENOMEM", "ENODEV"}
    /\ exitCalls \in 0..(MaxExitCalls + 1)
    /\ doubleFree \in BOOLEAN
    /\ doubleUnreg \in BOOLEAN
    /\ rpc \in {"open", "mmap", "loop", "ld_ax", "ld_ay", "ld_az", "ld_v",
                "printf", "usleep", "munmap", "close", "exited", "killed"}
    /\ path \in Paths
    /\ otherSize \in OtherSizes
    /\ otherHdr \in OtherHeaders
    /\ loaded \subseteq Fields
    /\ fd \in {"none", "open", "failed", "closed"}
    /\ rsize \in {0, MMIO_SIZE} \cup OtherSizes
    /\ regs \in {"none", "MAP_FAILED", "unmapped"} \cup Paths
    /\ i \in 0..Count
    /\ {ax, ay, az, v} \subseteq Words \cup 0..MaxCycles
    /\ nloads \in 0..(4 * Count)
    /\ nprinted \in 0..Count
    /\ npauses \in 0..Count
    /\ diag \in {"none", "open", "mmap"}
    /\ status \in {-1, 0, 1, 135}

\* ================================================================== claims

\* Abstract states of the reader's state machine.
Mapped == regs \in Paths
Terminated == rpc \in {"exited", "killed"}

\* C1: when registration is rejected after the region was allocated,
\* sim_init has released the region by the time it returns -ENODEV: the
\* region is neither allocated nor registered.
C1_NoLeakOnRegistrationFailure ==
    initret = "ENODEV" => ~allocated /\ ~registered

\* sim_init returned -ENODEV for a region it had obtained.
C1_Witness ==
    initret = "ENODEV" /\ mmio = "region" /\ ppc = "init_failed"

\* C2: magic and version are stored exactly once each, before registration,
\* and hold the values sim_init stored in every state in which the region
\* is registered, whatever the provider and the reader did since.
C2_HeaderImmutable ==
    registered =>
        /\ mem[OFF_MAGIC] = MAGIC
        /\ mem[OFF_VERSION] = VERSION
        /\ hstores[OFF_MAGIC] = 1
        /\ hstores[OFF_VERSION] = 1

\* The region is still registered after a reader ran to completion on it.
C2_Witness ==
    /\ registered
    /\ regs = "unmapped" /\ rpc = "exited" /\ path = "/dev/uio0"
    /\ nprinted = Count

\* C3 (as claimed): no call of sim_exit releases a region that is already
\* released or unregisters a device that is already unregistered.
C3_TeardownIdempotent ==
    ~doubleFree /\ ~doubleUnreg

\* C4 (as claimed): when the reader has exited, every resource it acquired
\* has been released by it: the descriptor is not left open and no mapping
\* is left in place.
C4_ReleaseOnEveryPath ==
    rpc = "exited" => fd # "open" /\ ~Mapped

\* C5 (as claimed): the reader never holds a mapping of the provider's
\* region after sim_exit has released the backing memory.
C5_MappingWithinRegionLifetime ==
    regs = "/dev/uio0" => allocated

\* C6 (as claimed): a reader that obtained its mapping ends only after
\* exactly Count iterations of four loads, one render and one pause.
C6_ExactlyCountSamples ==
    (Terminated /\ regs \in Paths \cup {"unmapped"}) =>
        /\ nprinted = Count
        /\ nloads = 4 * Count
        /\ npauses = Count

\* The state of the reader's state machine the reader is in.  The release
\* sequence (munmap, close, return) starts Closed once the mapping is gone.
RState ==
    IF rpc \in {"close", "exited", "killed"} THEN "Closed"
    ELSE IF regs \in Paths
           THEN IF rpc = "loop" /\ i = 0 THEN "Mapped" ELSE "Sampling"
    ELSE "Unopened"

RTransitions ==
    { <<"Unopened", "Mapped">>, <<"Mapped", "Sampling">>,
      <<"Sampling", "Closed">>, <<"Unopened", "Closed">> }

\* C7: every step of the reader follows Unopened -> Mapped -> Sampling ->
\* Closed or Unopened -> Closed; loads and renders happen only with the
\* mapping in place; a failed open leads to Closed in that same step; and
\* in Closed nothing is sampled, re-opened, re-mapped or released again.
C7_ReaderStateMachine ==
    [][ /\ RState' # RState => <<RState, RState'>> \in RTransitions
        /\ (nloads' # nloads \/ nprinted' # nprinted) =>
               /\ RState \in {"Mapped", "Sampling"}
               /\ Mapped /\ Mapped'
        /\ (rpc = "open" /\ fd' = "failed") => RState' = "Closed"
        /\ RState = "Closed" =>
               /\ UNCHANGED <<regs, nloads, nprinted, npauses, i>>
               /\ fd' # "open" \/ fd = "open"
               /\ rpc \in {"exited", "killed"} => UNCHANGED rvars
      ]_vars

\* A reader went through the whole machine and is Closed.
C7_Witness ==
    RState = "Closed" /\ rpc = "exited" /\ regs = "unmapped" /\ nprinted = Count

\* C8 (as claimed): a descriptor that resolved to a region whose size is
\* not MMIO_SIZE never yields a mapping, a load or a rendered sample.
C8_SizeErrorOnOtherSizes ==
    (rsize # 0 /\ rsize # MMIO_SIZE) =>
        ~Mapped /\ regs # "unmapped" /\ nloads = 0 /\ nprinted = 0

\* C9: a failed open or a failed mmap ends the reader at once with a
\* diagnostic, no rendered sample and status 1; status 1 arises in no other
\* way; status 0 arises only after open and mmap succeeded and Count
\* samples were rendered.
C9_ExitStatusContract ==
    /\ (fd = "failed" \/ regs = "MAP_FAILED") =>
           rpc = "exited" /\ status = 1 /\ diag # "none" /\ nprinted = 0
    /\ status = 1 =>
           /\ fd = "failed" \/ regs = "MAP_FAILED"
           /\ diag # "none" /\ nprinted = 0 /\ nloads = 0
    /\ status = 0 =>
           /\ fd = "closed" /\ regs = "unmapped" /\ diag = "none"
           /\ nprinted = Count
    /\ diag # "none" => status = 1

\* The mapping failed after the open succeeded and the reader exited 1.
C9_Witness ==
    regs = "MAP_FAILED" /\ rpc = "exited" /\ status = 1 /\ diag = "mmap"

\* C10: in every state in which sim_init has succeeded and sim_exit has not
\* run, the first step of sim_exit can be taken, and in every state in
\* which sim_exit has unregistered, its kfree can be taken, whatever the
\* reader is doing.
C10_TeardownDoesNotWait ==
    /\ ppc = "live" => ENABLED sim_exit_unregister
    /\ ppc = "exit_kfree" => ENABLED sim_exit_kfree

\* sim_exit ran to its end while a reader was still holding its mapping.
C10_Witness ==
    /\ ppc = "unloaded" /\ exitCalls = 1 /\ ~allocated /\ ~registered
    /\ regs = "/dev/uio0" /\ ~Terminated

\* C11: when kzalloc fails sim_init returns -ENOMEM at once: no header word
\* is stored, sim_uio is not filled in, nothing is registered, and the
\* reader of the provider's device never gets a descriptor or a mapping.
C11_AllocationFailure ==
    (mmio = "NULL" /\ ppc # "idle") =>
        /\ ppc = "init_failed" /\ initret = "ENOMEM"
        /\ ~allocated /\ ~registered
        /\ \A f \in HeaderFields : hstores[f] = 0 /\ mem[f] = 0
        /\ uio_size = 0
        /\ path = "/dev/uio0" => fd \in {"none", "failed"} /\ regs = "none"

\* sim_init returned -ENOMEM and the reader's open of the device failed.
C11_Witness ==
    /\ initret = "ENOMEM" /\ mmio = "NULL"
    /\ path = "/dev/uio0" /\ rpc = "exited" /\ fd = "failed"

\* The reader holds a mapping of the provider's region and the region is
\* still allocated (and so has been ever since it was mapped).
LiveView == regs = "/dev/uio0" /\ allocated

\* C12: nothing orders the reader's four loads against the writer's stores:
\* at each load statement the load can be taken whatever the writer's
\* position in its update cycle, and what a sample of the live region holds
\* are patterns of update cycles that have begun (or the initial zero) --
\* nothing forces the four to come from one cycle.
C12_LoadsUnsynchronized ==
    /\ rpc = "ld_ax" => ENABLED main_load_ax
    /\ rpc = "ld_ay" => ENABLED main_load_ay
    /\ rpc = "ld_az" => ENABLED main_load_az
    /\ rpc = "ld_v" => ENABLED main_load_v
    /\ (LiveView /\ rpc = "printf") => {ax, ay, az, v} \subseteq 0..wcycle

\* A torn snapshot: one sample of the live region about to be rendered
\* whose fields come from two different update cycles of the writer.
C12_Witness ==
    /\ LiveView /\ rpc = "printf"
    /\ \A x \in {ax, ay, az, v} : x >= 1
    /\ Cardinality({ax, ay, az, v}) >= 2

\* C13: round trip over the live region.  Each load of the reader returns
\* the pattern last stored at the documented offset of that field and
\* leaves the other three locals alone, and one store of the writer changes
\* the word at no more than one of the offsets the reader loads from.
C13_RoundTrip ==
    [][ /\ (LiveView /\ rpc = "ld_ax" /\ rpc' = "ld_ay") =>
               ax' = mem[Layout.accel_x] /\ UNCHANGED <<ay, az, v>>
        /\ (LiveView /\ rpc = "ld_ay" /\ rpc' = "ld_az") =>
               ay' = mem[Layout.accel_y] /\ UNCHANGED <<ax, az, v>>
        /\ (LiveView /\ rpc = "ld_az" /\ rpc' = "ld_v") =>
               az' = mem[Layout.accel_z] /\ UNCHANGED <<ax, ay, v>>
        /\ (LiveView /\ rpc = "ld_v" /\ rpc' = "printf") =>
               v' = mem[Layout.airspeed] /\ UNCHANGED <<ax, ay, az>>
        /\ wvars' # wvars =>
               /\ Cardinality({o \in TelemetryFields : mem'[o] # mem[o]}) <= 1
               /\ \A o \in Fields \ TelemetryFields : mem'[o] = mem[o]
      ]_vars

\* A sample of the live region in which two fields hold nonzero patterns
\* the writer stored, each equal to the word now at its documented offset.
C13_Witness ==
    /\ LiveView /\ rpc = "printf"
    /\ ax >= 1 /\ ax = mem[Layout.accel_x]
    /\ v >= 1 /\ v = mem[Layout.airspeed]
    /\ az # ax

InitializedPage ==
    [ZeroPage EXCEPT ![OFF_MAGIC] = MAGIC, ![OFF_VERSION] = VERSION,
                     ![OFF_STATUS] = STATUS_OK]

\* C15, first half: sim_init stores to the header zone alone, so every word
\* outside it is zero while the region is registered.
C15_TelemetryZeroWhenVisible ==
    registered => \A o \in Fields \ HeaderFields : mem[o] = 0

\* C15 (as claimed): the telemetry zone is all-zero when the region is
\* visible and, with no telemetry writer, every sample the reader of the
\* provider's device takes is (0, 0, 0, 0).
C15_AllSamplesZero ==
    /\ C15_TelemetryZeroWhenVisible
    /\ (path = "/dev/uio0" /\ nloads > 0) =>
           ax = 0 /\ ay = 0 /\ az = 0 /\ v = 0

\* C16: registered => allocated.  The region is allocated at every position
\* of sim_init from kzalloc's success up to the registration and while the
\* device is live; sim_exit has unregistered before it frees; and sim_init
\* frees only on the rollback path.
C16_RegisteredImpliesAllocated ==
    /\ registered => allocated /\ mmio = "region"
    /\ ppc \in {"st_magic", "st_version", "st_status", "fill_uio",
                "register", "rollback", "live"} => allocated
    /\ (ppc = "exit_kfree" /\ exitCalls = 1) => allocated /\ ~registered
    /\ (initret = "0" /\ exitCalls = 0) => allocated

\* sim_exit has unregistered the device and has not yet freed the region.
C16_Witness ==
    ppc = "exit_kfree" /\ exitCalls = 1 /\ allocated /\ ~registered

\* C17: the three header stores precede the registration: while the region
\* is registered each header word has been stored once and status is
\* nonzero, and a reader holding a mapping of the live region finds
\* status = OK at every moment.
C17_HeaderCompleteBeforeVisible ==
    /\ registered =>
           /\ mem[OFF_STATUS] # 0
           /\ \A f \in HeaderFields : hstores[f] = 1
    /\ LiveView => mem[OFF_STATUS] = STATUS_OK

\* A reader is sampling the registered region.
C17_Witness ==
    registered /\ LiveView /\ nloads > 0 /\ mem[OFF_STATUS] = STATUS_OK

\* C18: no step of the reader changes the region or any other state of the
\* provider, and with no provider write after sim_init the region a reader
\* of the provider's device has mapped, or has finished with, holds what
\* sim_init left in it.
C18_ReaderIsReadOnly ==
    /\ [][rvars' # rvars => UNCHANGED <<pvars, wvars>>]_vars
    /\ [](path = "/dev/uio0" /\ regs \in {"/dev/uio0", "unmapped"} =>
              mem = InitializedPage)

\* A complete reader run on the provider's device has ended and the region,
\* still allocated, holds what it held when it became visible.
C18_Witness ==
    /\ path = "/dev/uio0" /\ rpc = "exited" /\ status = 0
    /\ loaded = TelemetryFields /\ nloads = 4 * Count
    /\ allocated /\ mem = InitializedPage

====
